---- MODULE Spec2Model ----
(***************************************************************************)
(* A model of the N x N sliding puzzle of src/fifteen: the Board class     *)
(* (fifteenGame.py), the A* and greedy best-first searches                 *)
(* (fifteenSolver.py) and scramble_board (fifteenDisplay.py).              *)
(*                                                                         *)
(* Python lists are modelled as sequences; a Python index i is the TLA+    *)
(* index i + 1.  Rows and columns keep Python's 0-based numbering.         *)
(***************************************************************************)
EXTENDS Integers, Sequences, FiniteSets, TLC

VARIABLES
    \* ---- Board objects and a caller of Board.apply_move (SpecBoard) ----
    heap,        \* object id -> Board object (size, tiles, positions)
    recv,        \* id of the receiver of the last apply_move call (0: no call yet)
    ret,         \* id of the caller's current board: what the last call returned
    pre,         \* value of the receiver when the last call was made
    lastMove,    \* argument of the last apply_move call
    exc,         \* exception raised by the last call ("none" if it returned)
    ncalls,      \* number of apply_move calls made so far
    \* ---- scramble_board followed by the two searches (SpecSearch) ----
    sboard,      \* the board b of scramble_board / start_board of the searches
    fromFile,    \* TRUE when sboard was loaded as given rather than scrambled
    k,           \* number of random moves scramble_board has applied
    pc,          \* "idle" | "scramble" | "astar" | "astar_done" | "greedy" | "done"
    max_iters,   \* iteration cap of the running search call
    pq,          \* frontier of the running search call (set of heap entries)
    counter,     \* insertion counter of the running search call
    came_from,   \* predecessor map of the running search call
    g_score,     \* best known cost map of the running search call
    popped,      \* the entry the last heappop of the running call returned
    iters,       \* loop iterations of the running search call
    astar_result,   \* what astar returned
    greedy_result,  \* what greedy_best_first returned
    hint_astar,     \* what next_move_astar returned ("pending" before it has)
    hint_greedy,    \* what next_move_greedy returned ("pending" before it has)
    \* ---- a caller of the Board constructor (SpecCtor) ----
    ctor_arg,    \* the argument of the last Board(...) call
    ctor_out,    \* its outcome: the exception raised, or the board built
    \* ---- the display loop and its background searches (SpecDisplay) ----
    main_size,           \* main: its variable size, the size scramble_board is given
    main_board,          \* main: its variable board, the board on display
    start_board,         \* main: the board the r key goes back to
    nkeys,               \* main: the number of key presses handled so far
    running,             \* main: FALSE once QUIT or the escape key was handled
    at,                  \* main: the place in the frame of the statement to execute
    event_key,           \* main: the search key whose handler is being executed
    history,             \* main: the boards the u key goes back to
    auto_run_mode,       \* main: the moves of search_path are being applied
    auto_run_index,      \* main: the index of the next move of search_path
    path_from,           \* the thread whose setter assigned search_path (0: none)
    applied,             \* the last move auto-run applied, and to what (None: none)
    search_in_progress,  \* main: a background search is taken to be running
    search_path,         \* main: the path delivered by the last search, or None
    search_board_hash,   \* main: None, or the tiles the search was started or delivered for
    threads              \* the background threads started so far, in start order

boardVars  == <<heap, recv, ret, pre, lastMove, exc, ncalls>>
searchVars == <<sboard, fromFile, k, pc, max_iters, pq, counter, came_from,
                g_score, popped, iters, astar_result, greedy_result, hint_astar,
                hint_greedy>>
ctorVars == <<ctor_arg, ctor_out>>
autoVars == <<history, auto_run_mode, auto_run_index, applied>>
displayVars == <<main_size, main_board, start_board, nkeys, running, at, event_key,
                 search_in_progress, search_path, search_board_hash, threads, path_from,
                 autoVars>>
vars == <<boardVars, searchVars, ctorVars, displayVars>>

----------------------------------------------------------------------------
(* Bounds of the model *)

\* scramble_board applies at most this many random moves
ScrambleDepth == 8
\* the caller of SpecBoard makes at most this many apply_move calls
MaxCalls == 4
\* iteration caps 0..SmallCap are tried besides the default cap
SmallCap == 2
\* the longest scramble of SpecWalk
WalkDepth == 31
\* the callers of SpecCtor pass at most this many rows, of at most this length
MaxRows == 3
MaxRowLen == 3
\* and flat lists of at most this many tiles
MaxFlat == 4
\* the display loop of SpecDisplay handles at most this many key presses
MaxKeys == 3
\* moves from the solved board of the 3 x 3 and 4 x 4 boards on display
StartDepth == 0
\* largest size of the boards on display, and of the board files
MaxSize == 4
\* the default iteration cap of astar and greedy_best_first
DefaultMaxIters == 1000000

Sizes == {2, 3}
Moves == {"up", "down", "left", "right"}
\* a value outside the four directions
BadMove == "stay"

----------------------------------------------------------------------------
(* Python helpers *)

Abs(x) == IF x < 0 THEN -x ELSE x

\* math.isqrt
isqrt(n) == CHOOSE s \in 0..n : s * s <= n /\ (s + 1) * (s + 1) > n

\* divmod(idx, size)
divmod(idx, size) == <<idx \div size, idx % size>>

\* x in list
Contains(list, x) == \E i \in 1..Len(list) : list[i] = x

\* list[i] with Python's index rules: a negative index counts from the end,
\* an index outside -len..len-1 raises IndexError
InRange(list, i) == i >= -Len(list) /\ i < Len(list)
PyIdx(list, i) == IF i < 0 THEN Len(list) + i + 1 ELSE i + 1

\* the values of a list
Range(list) == {list[i] : i \in 1..Len(list)}

\* the permutations of a finite set, as sequences
Perms(S) ==
    {p \in [1..Cardinality(S) -> S] : \A i, j \in 1..Cardinality(S) : p[i] = p[j] => i = j}

----------------------------------------------------------------------------
(* fifteenGame.py: class Board *)

\* Board.__init__ on a flat list of ints
Board(tiles) ==
    LET length == Len(tiles)
        size   == isqrt(length)
    IN  [size |-> size,
         tiles |-> tiles,
         positions |->
            [v \in Range(tiles) |->
                LET idx == (CHOOSE i \in 1..length :
                               tiles[i] = v /\ \A j \in (i + 1)..length : tiles[j] # v) - 1
                IN  divmod(idx, size)]]

\* Board.__init__ raises ValueError on a flat list whose length is no square
BoardRaises(tiles) == isqrt(Len(tiles)) * isqrt(Len(tiles)) # Len(tiles)

\* "for row in tiles for x in row": the rows one after the other
RECURSIVE Flatten(_)
Flatten(rows) == IF rows = <<>> THEN <<>> ELSE Head(rows) \o Flatten(Tail(rows))

\* Board.__init__ on a nested list: size is the number of rows and tiles are
\* the rows one after the other, whatever the lengths of the rows
Board_fromRows(rows) ==
    LET size == Len(rows)
        flat == Flatten(rows)
        length == Len(flat)
    IN  [size |-> size,
         tiles |-> flat,
         positions |->
            [v \in Range(flat) |->
                LET idx == (CHOOSE i \in 1..length :
                               flat[i] = v /\ \A j \in (i + 1)..length : flat[j] # v) - 1
                IN  divmod(idx, size)]]

\* Board(...) on an argument that is a flat list of ints (nested = FALSE) or a
\* non-empty list of rows (nested = TRUE): the exception raised, or the board
Board_init(arg) ==
    IF arg.nested
    THEN [exc |-> "none", board |-> Board_fromRows(arg.rows)]
    ELSE IF BoardRaises(arg.flat)
         THEN [exc |-> "ValueError", board |-> Board(<<>>)]
         ELSE [exc |-> "none", board |-> Board(arg.flat)]

\* Board.index
index(b, row, col) == row * b.size + col

\* valid_moves with the directions read as the blank's own travel: "up" when
\* there is a row above the blank, "left" when there is a column to its left
valid_moves_blankTravels(b) ==
    IF 0 \notin DOMAIN b.positions THEN <<>>
    ELSE LET r == b.positions[0][1]
             c == b.positions[0][2]
         IN  (IF r > 0 THEN <<"up">> ELSE <<>>)
             \o (IF r < b.size - 1 THEN <<"down">> ELSE <<>>)
             \o (IF c > 0 THEN <<"left">> ELSE <<>>)
             \o (IF c < b.size - 1 THEN <<"right">> ELSE <<>>)

\* valid_moves with "c >= 0" for "c > 0"
valid_moves_rightAlways(b) ==
    IF 0 \notin DOMAIN b.positions THEN <<>>
    ELSE LET r == b.positions[0][1]
             c == b.positions[0][2]
         IN  (IF r < b.size - 1 THEN <<"up">> ELSE <<>>)
             \o (IF r > 0 THEN <<"down">> ELSE <<>>)
             \o (IF c < b.size - 1 THEN <<"left">> ELSE <<>>)
             \o (IF c >= 0 THEN <<"right">> ELSE <<>>)

\* Board.valid_moves: the list of moves, in the order the code appends them
valid_moves(b) ==
    IF 0 \notin DOMAIN b.positions THEN <<>>
    ELSE LET r == b.positions[0][1]
             c == b.positions[0][2]
         IN  (IF r < b.size - 1 THEN <<"up">> ELSE <<>>)
             \o (IF r > 0 THEN <<"down">> ELSE <<>>)
             \o (IF c < b.size - 1 THEN <<"left">> ELSE <<>>)
             \o (IF c > 0 THEN <<"right">> ELSE <<>>)

\* the smallest object id not in use
NewId(h) ==
    CHOOSE i \in 1..(Cardinality(DOMAIN h) + 1) :
        i \notin DOMAIN h /\ \A j \in 1..(i - 1) : j \in DOMAIN h

\* Board.copy: Board(self.tiles.copy()), a new object built by __init__ from
\* the flat list of the tiles; __init__ raises ValueError when their number
\* is no perfect square, and then no object is returned
Board_copy(h, self) ==
    LET new == NewId(h)
    IN  IF BoardRaises(h[self].tiles)
        THEN [heap |-> h, ret |-> self, exc |-> "ValueError"]
        ELSE [heap |-> h @@ (new :> Board(h[self].tiles)), ret |-> new, exc |-> "none"]

\* Source with the rows of "up" and "down" exchanged
Source_upDownExchanged(move, zr, zc) ==
    IF move = "up" THEN <<zr - 1, zc>>
    ELSE IF move = "down" THEN <<zr + 1, zc>>
    ELSE IF move = "left" THEN <<zr, zc + 1>>
    ELSE <<zr, zc - 1>>

\* the source tile of a move: the tile that will move into the blank
Source(move, zr, zc) ==
    IF move = "up" THEN <<zr + 1, zc>>
    ELSE IF move = "down" THEN <<zr - 1, zc>>
    ELSE IF move = "left" THEN <<zr, zc + 1>>
    ELSE <<zr, zc - 1>>

\* Swapped without "new.positions[moved_val] = [zr, zc]"
Swapped_movedPosStale(new, move) ==
    LET zr == new.positions[0][1]
        zc == new.positions[0][2]
        s  == Source(move, zr, zc)
        z_idx == index(new, zr, zc)
        s_idx == index(new, s[1], s[2])
    IN  IF ~InRange(new.tiles, z_idx) \/ ~InRange(new.tiles, s_idx)
        THEN [exc |-> "IndexError", board |-> new]
        ELSE LET zi == PyIdx(new.tiles, z_idx)
                 si == PyIdx(new.tiles, s_idx)
                 tiles2 == [new.tiles EXCEPT ![zi] = new.tiles[si], ![si] = new.tiles[zi]]
                 pos1 == (0 :> s) @@ new.positions
             IN  [exc |-> "none",
                  board |-> [size |-> new.size, tiles |-> tiles2, positions |-> pos1]]

\* Swapped without "new.positions[0] = [sr, sc]"
Swapped_blankPosStale(new, move) ==
    LET zr == new.positions[0][1]
        zc == new.positions[0][2]
        s  == Source(move, zr, zc)
        z_idx == index(new, zr, zc)
        s_idx == index(new, s[1], s[2])
    IN  IF ~InRange(new.tiles, z_idx) \/ ~InRange(new.tiles, s_idx)
        THEN [exc |-> "IndexError", board |-> new]
        ELSE LET zi == PyIdx(new.tiles, z_idx)
                 si == PyIdx(new.tiles, s_idx)
                 tiles2 == [new.tiles EXCEPT ![zi] = new.tiles[si], ![si] = new.tiles[zi]]
                 moved_val == tiles2[zi]
                 pos2 == (moved_val :> <<zr, zc>>) @@ new.positions
             IN  [exc |-> "none",
                  board |-> [size |-> new.size, tiles |-> tiles2, positions |-> pos2]]

\* the swap and the two position updates apply_move makes on the copy
Swapped(new, move) ==
    LET zr == new.positions[0][1]
        zc == new.positions[0][2]
        s  == Source(move, zr, zc)
        z_idx == index(new, zr, zc)
        s_idx == index(new, s[1], s[2])
    IN  IF ~InRange(new.tiles, z_idx) \/ ~InRange(new.tiles, s_idx)
        THEN [exc |-> "IndexError", board |-> new]
        ELSE LET zi == PyIdx(new.tiles, z_idx)
                 si == PyIdx(new.tiles, s_idx)
                 tiles2 == [new.tiles EXCEPT ![zi] = new.tiles[si], ![si] = new.tiles[zi]]
                 moved_val == tiles2[zi]
                 pos1 == (0 :> s) @@ new.positions
                 pos2 == (moved_val :> <<zr, zc>>) @@ pos1
             IN  [exc |-> "none",
                  board |-> [size |-> new.size, tiles |-> tiles2, positions |-> pos2]]

\* Board.apply_move without "if move not in self.valid_moves(): return self"
Board_apply_move_noLegalCheck(h, self, move) ==
    IF move \notin {"up", "down", "left", "right"}
    THEN [heap |-> h, ret |-> self, exc |-> "none"]
    ELSE LET c == Board_copy(h, self)
             sw == Swapped(c.heap[c.ret], move)
         IN  IF c.exc # "none" THEN c
             ELSE [heap |-> [c.heap EXCEPT ![c.ret] = sw.board], ret |-> c.ret,
                   exc |-> sw.exc]

\* Board.apply_move on the object self of heap h: the heap after the call, the
\* id of the object returned, and the exception raised, if any
Board_apply_move(h, self, move) ==
    IF move \notin {"up", "down", "left", "right"}
    THEN [heap |-> h, ret |-> self, exc |-> "none"]
    ELSE IF ~Contains(valid_moves(h[self]), move)
    THEN [heap |-> h, ret |-> self, exc |-> "none"]
    ELSE LET c == Board_copy(h, self)
             sw == Swapped(c.heap[c.ret], move)
         IN  IF c.exc # "none" THEN c
             ELSE [heap |-> [c.heap EXCEPT ![c.ret] = sw.board], ret |-> c.ret,
                   exc |-> sw.exc]

\* what a call that raises exception e leaves in the place of its value
Raised(e) == [raised |-> e]

\* what a call hands to its caller: the object returned, or the exception
Outcome(r) == IF r.exc = "none" THEN r.heap[r.ret] ELSE Raised(r.exc)

\* the value of the board apply_move returns, or the exception it raises
apply_move(b, move) == Outcome(Board_apply_move(1 :> b, 1, move))

\* Board.isterminal raises IndexError: "self.tiles[i]" when the loop over
\* range(n - 1) runs past the end of the tiles, "self.tiles[-1]" when there
\* are no tiles
isterminalRaises(b) ==
    LET n == b.size * b.size
        len == Len(b.tiles)
    IN  \/ n - 1 > len /\ \A i \in 0..(len - 1) : b.tiles[i + 1] = i + 1
        \/ n - 1 <= len /\ len = 0

\* Board.isterminal
isterminal(b) ==
    LET n == b.size * b.size
    IN  /\ \A i \in 0..(n - 2) : b.tiles[i + 1] = i + 1
        /\ b.tiles[Len(b.tiles)] = 0

\* manhattanFrom without "if val == 0: continue": the blank counts as a tile
RECURSIVE manhattanFrom_countsBlank(_, _)
manhattanFrom_countsBlank(b, idx) ==
    IF idx >= Len(b.tiles) THEN 0
    ELSE LET val == b.tiles[idx + 1]
             cur == divmod(idx, b.size)
             goal == divmod(val - 1, b.size)
         IN  Abs(cur[1] - goal[1]) + Abs(cur[2] - goal[2])
             + manhattanFrom_countsBlank(b, idx + 1)

\* Board.manhattan
RECURSIVE manhattanFrom(_, _)
manhattanFrom(b, idx) ==
    IF idx >= Len(b.tiles) THEN 0
    ELSE LET val == b.tiles[idx + 1]
             cur == divmod(idx, b.size)
             goal == divmod(val - 1, b.size)
         IN  (IF val = 0 THEN 0
              ELSE Abs(cur[1] - goal[1]) + Abs(cur[2] - goal[2]))
             + manhattanFrom(b, idx + 1)

manhattan(b) == manhattanFrom(b, 0)

----------------------------------------------------------------------------
(* fifteenSolver.py *)

\* linear_conflict: every inverted pair of tiles that sit in their goal row
\* (goal column) adds 2
linear_conflict(b) ==
    LET size == b.size
        val(row, col) == b.tiles[row * size + col + 1]
        inRow(row, col) == val(row, col) # 0 /\ (val(row, col) - 1) \div size = row
        inCol(row, col) == val(row, col) # 0 /\ (val(row, col) - 1) % size = col
        rowPairs == {t \in (0..(size - 1)) \X (0..(size - 1)) \X (0..(size - 1)) :
                        /\ t[2] < t[3]
                        /\ inRow(t[1], t[2]) /\ inRow(t[1], t[3])
                        /\ val(t[1], t[2]) > val(t[1], t[3])}
        colPairs == {t \in (0..(size - 1)) \X (0..(size - 1)) \X (0..(size - 1)) :
                        /\ t[2] < t[3]
                        /\ inCol(t[2], t[1]) /\ inCol(t[3], t[1])
                        /\ val(t[2], t[1]) > val(t[3], t[1])}
    IN  2 * Cardinality(rowPairs) + 2 * Cardinality(colPairs)

\* the heuristic both searches use
h(b) == manhattan(b) + linear_conflict(b)

\* Python's None, where a tiles tuple is expected
None == <<>>

\* Python's order on tuples of ints of equal length
RECURSIVE TupleLess(_, _)
TupleLess(a, b) ==
    IF a = <<>> \/ b = <<>> THEN a = <<>> /\ b # <<>>
    ELSE IF Head(a) # Head(b) THEN Head(a) < Head(b)
    ELSE TupleLess(Tail(a), Tail(b))

\* a frontier entry is a tuple of ints followed by a tiles tuple: (f, g, counter,
\* tiles) in astar, (h, counter, tiles) in greedy_best_first
EntryKey(e) == SubSeq(e, 1, Len(e) - 1) \o e[Len(e)]

\* heapq.heappop: the least entry of the frontier
heappop(q) == CHOOSE e \in q : \A o \in q \ {e} : TupleLess(EntryKey(e), EntryKey(o))

\* list.reverse
RECURSIVE Reverse(_)
Reverse(s) == IF s = <<>> THEN <<>> ELSE Append(Reverse(Tail(s)), Head(s))

\* ReconstructFrom with the connecting move looked for on the wrong board: the
\* move that leads from current back to prev_tiles
RECURSIVE ReconstructFrom_fromCurrent(_, _, _, _)
ReconstructFrom_fromCurrent(cf, start_tiles, current, path) ==
    IF current = start_tiles THEN path
    ELSE LET prev_tiles == cf[current]
         IN  IF prev_tiles = None THEN path
             ELSE LET cur_board == Board(current)
                      vm == valid_moves(cur_board)
                      found == {i \in 1..Len(vm) :
                                   apply_move(cur_board, vm[i]).tiles = prev_tiles}
                      first == CHOOSE i \in found : \A j \in found : i <= j
                      path2 == IF found = {} THEN path ELSE Append(path, vm[first])
                  IN  ReconstructFrom_fromCurrent(cf, start_tiles, prev_tiles, path2)

\* the path reconstruction loop of both searches, before path.reverse()
RECURSIVE ReconstructFrom(_, _, _, _)
ReconstructFrom(cf, start_tiles, current, path) ==
    IF current = start_tiles THEN path
    ELSE LET prev_tiles == cf[current]
         IN  IF prev_tiles = None THEN path
             ELSE LET prev_board == Board(prev_tiles)
                      vm == valid_moves(prev_board)
                      found == {i \in 1..Len(vm) :
                                   apply_move(prev_board, vm[i]).tiles = current}
                      first == CHOOSE i \in found : \A j \in found : i <= j
                      path2 == IF found = {} THEN path ELSE Append(path, vm[first])
                  IN  ReconstructFrom(cf, start_tiles, prev_tiles, path2)

\* Reconstruct without path.reverse()
Reconstruct_noReverse(cf, start_tiles, tiles) ==
    ReconstructFrom(cf, start_tiles, tiles, <<>>)

Reconstruct(cf, start_tiles, tiles) ==
    Reverse(ReconstructFrom(cf, start_tiles, tiles, <<>>))

\* the locals of a search call
Locals(q, c, cf, gs) == [pq |-> q, counter |-> c, came_from |-> cf, g_score |-> gs]

\* AstarVisit with the frontier ordered by nh instead of nf = ng + nh
AstarVisit_orderByH(st, board, g, tiles, move) ==
    LET nb == apply_move(board, move)
        ntiles == nb.tiles
        ng == g + 1
    IN  IF ntiles \notin DOMAIN st.g_score \/ ng < st.g_score[ntiles]
        THEN LET nh == manhattan(nb) + linear_conflict(nb)
             IN  Locals(st.pq \cup {<<nh, ng, st.counter, ntiles>>},
                        st.counter + 1,
                        (ntiles :> tiles) @@ st.came_from,
                        (ntiles :> ng) @@ st.g_score)
        ELSE st

\* AstarVisit with the cost of the successor not increased: ng = g
AstarVisit_noStepCost(st, board, g, tiles, move) ==
    LET nb == apply_move(board, move)
        ntiles == nb.tiles
        ng == g
    IN  IF ntiles \notin DOMAIN st.g_score \/ ng < st.g_score[ntiles]
        THEN LET nh == manhattan(nb) + linear_conflict(nb)
                 nf == ng + nh
             IN  Locals(st.pq \cup {<<nf, ng, st.counter, ntiles>>},
                        st.counter + 1,
                        (ntiles :> tiles) @@ st.came_from,
                        (ntiles :> ng) @@ st.g_score)
        ELSE st

\* AstarVisit with the sign of the cost wrong in the priority: nf = nh - ng
AstarVisit_minusG(st, board, g, tiles, move) ==
    LET nb == apply_move(board, move)
        ntiles == nb.tiles
        ng == g + 1
    IN  IF ntiles \notin DOMAIN st.g_score \/ ng < st.g_score[ntiles]
        THEN LET nh == manhattan(nb) + linear_conflict(nb)
                 nf == nh - ng
             IN  Locals(st.pq \cup {<<nf, ng, st.counter, ntiles>>},
                        st.counter + 1,
                        (ntiles :> tiles) @@ st.came_from,
                        (ntiles :> ng) @@ st.g_score)
        ELSE st

\* AstarVisit with the heuristic taken on the expanded board, not on its
\* successor
AstarVisit_parentH(st, board, g, tiles, move) ==
    LET nb == apply_move(board, move)
        ntiles == nb.tiles
        ng == g + 1
    IN  IF ntiles \notin DOMAIN st.g_score \/ ng < st.g_score[ntiles]
        THEN LET nh == manhattan(board) + linear_conflict(board)
                 nf == ng + nh
             IN  Locals(st.pq \cup {<<nf, ng, st.counter, ntiles>>},
                        st.counter + 1,
                        (ntiles :> tiles) @@ st.came_from,
                        (ntiles :> ng) @@ st.g_score)
        ELSE st

\* one pass of the "for move in board.valid_moves()" loop of astar
AstarVisit(st, board, g, tiles, move) ==
    LET nb == apply_move(board, move)
        ntiles == nb.tiles
        ng == g + 1
    IN  IF ntiles \notin DOMAIN st.g_score \/ ng < st.g_score[ntiles]
        THEN LET nh == manhattan(nb) + linear_conflict(nb)
                 nf == ng + nh
             IN  Locals(st.pq \cup {<<nf, ng, st.counter, ntiles>>},
                        st.counter + 1,
                        (ntiles :> tiles) @@ st.came_from,
                        (ntiles :> ng) @@ st.g_score)
        ELSE st

\* GreedyVisit that keeps a successor only when it is nearer to the goal by h
GreedyVisit_onlyDownhill(st, board, g, tiles, move) ==
    LET nb == apply_move(board, move)
        ntiles == nb.tiles
        ng == st.g_score[tiles] + 1
        nh == manhattan(nb) + linear_conflict(nb)
    IN  IF /\ ntiles \notin DOMAIN st.g_score \/ ng < st.g_score[ntiles]
           /\ nh < manhattan(board) + linear_conflict(board)
        THEN Locals(st.pq \cup {<<nh, st.counter, ntiles>>},
                    st.counter + 1,
                    (ntiles :> tiles) @@ st.came_from,
                    (ntiles :> ng) @@ st.g_score)
        ELSE st

\* one pass of the "for move in board.valid_moves()" loop of greedy_best_first
GreedyVisit(st, board, g, tiles, move) ==
    LET nb == apply_move(board, move)
        ntiles == nb.tiles
        ng == st.g_score[tiles] + 1
    IN  IF ntiles \notin DOMAIN st.g_score \/ ng < st.g_score[ntiles]
        THEN LET nh == manhattan(nb) + linear_conflict(nb)
             IN  Locals(st.pq \cup {<<nh, st.counter, ntiles>>},
                        st.counter + 1,
                        (ntiles :> tiles) @@ st.came_from,
                        (ntiles :> ng) @@ st.g_score)
        ELSE st

\* the whole "for move in board.valid_moves()" loop, from the i-th move on
RECURSIVE Expand(_, _, _, _, _, _)
Expand(alg, st, board, g, tiles, i) ==
    LET vm == valid_moves(board)
    IN  IF i > Len(vm) THEN st
        ELSE Expand(alg,
                    IF alg = "astar" THEN AstarVisit(st, board, g, tiles, vm[i])
                    ELSE GreedyVisit(st, board, g, tiles, vm[i]),
                    board, g, tiles, i + 1)

----------------------------------------------------------------------------
(* Values of the variables outside a call *)

\* the solved board of size N: 1, 2, ..., N*N-1, 0, which is list(range(1,
\* N * N)) + [0]: the list [0] when N is 0
Solved(N) ==
    LET n == IF N * N = 0 THEN 1 ELSE N * N
    IN  [i \in 1..n |-> IF i = n THEN 0 ELSE i]

\* the solved tiles with the blank exchanged with the tile of cell p
BlankAt(N, p) ==
    [i \in 1..(N * N) |-> IF i = p THEN 0
                          ELSE IF i = N * N THEN Solved(N)[p]
                          ELSE Solved(N)[i]]

\* a search call has returned nothing yet
Pending == [kind |-> "pending", path |-> <<>>, why |-> "pending"]
\* return path
Found(path) == [kind |-> "path", path |-> path, why |-> "goal"]
\* return None; why names the return statement taken
NotFound(why) == [kind |-> "none", path |-> <<>>, why |-> why]
\* the call raises exception e and returns nothing
RaisedIn(e) == [kind |-> "raised", path |-> <<>>, why |-> e]

IterCaps == (0..SmallCap) \cup {DefaultMaxIters}

IdleBoardVars ==
    /\ heap = (1 :> Board(Solved(2)))
    /\ recv = 0
    /\ ret = 1
    /\ pre = Board(Solved(2))
    /\ lastMove = "none"
    /\ exc = "none"
    /\ ncalls = 0

\* no search is called; pc names the program that runs
IdleSearchVarsAt(p) ==
    /\ sboard = Board(Solved(2))
    /\ fromFile = FALSE
    /\ k = 0
    /\ pc = p
    /\ max_iters = 0
    /\ pq = {}
    /\ counter = 0
    /\ came_from = <<>>
    /\ g_score = <<>>
    /\ popped = None
    /\ iters = 0
    /\ astar_result = Pending
    /\ greedy_result = Pending
    /\ hint_astar = "pending"
    /\ hint_greedy = "pending"

IdleSearchVars == IdleSearchVarsAt("idle")

\* search_path is None
NoPath == [kind |-> "none", path |-> <<>>]

IdleCtorVars ==
    /\ ctor_arg = [nested |-> FALSE, flat |-> <<>>, rows |-> <<>>]
    /\ ctor_out = [exc |-> "pending", board |-> Board(<<>>)]

IdleDisplayVars ==
    /\ main_size = 2
    /\ main_board = Board(Solved(2))
    /\ start_board = Board(Solved(2))
    /\ nkeys = 0
    /\ running = TRUE
    /\ at = "events"
    /\ event_key = ""
    /\ history = <<>>
    /\ auto_run_mode = FALSE
    /\ auto_run_index = 0
    /\ path_from = 0
    /\ applied = None
    /\ search_in_progress = FALSE
    /\ search_path = NoPath
    /\ search_board_hash = None
    /\ threads = <<>>

----------------------------------------------------------------------------
(* SpecBoard: a caller that keeps one board and calls apply_move on it, as   *)
(* in "b = b.apply_move(m)", with legal and illegal arguments                *)

\* the boards the caller starts from: every permutation of a 2 x 2 board, and
\* the 3 x 3 and 4 x 4 boards that have the blank in any one cell
InitTiles ==
    Perms(0..3) \cup {BlankAt(3, p) : p \in 1..9} \cup {BlankAt(4, p) : p \in 1..16}

InitBoard ==
    /\ \E t \in InitTiles :
          /\ heap = (1 :> Board(t))
          /\ pre = Board(t)
    /\ recv = 0
    /\ ret = 1
    /\ lastMove = "none"
    /\ exc = "none"
    /\ ncalls = 0
    /\ IdleSearchVars
    /\ IdleCtorVars
    /\ IdleDisplayVars

\* b = b.apply_move(move): objects no variable refers to any more are dropped
CallApplyMove(move) ==
    /\ pc = "idle"
    /\ ncalls < MaxCalls
    /\ LET r == Board_apply_move(heap, ret, move)
           keep == IF r.exc = "none" THEN {ret, r.ret} ELSE {ret}
       IN  /\ heap' = [o \in keep |-> r.heap[o]]
           /\ ret' = IF r.exc = "none" THEN r.ret ELSE ret
           /\ exc' = r.exc
    /\ recv' = ret
    /\ pre' = heap[ret]
    /\ lastMove' = move
    /\ ncalls' = ncalls + 1
    /\ UNCHANGED <<searchVars, ctorVars, displayVars>>

NextBoard == \E move \in Moves \cup {BadMove} : CallApplyMove(move)

SpecBoard == InitBoard /\ [][NextBoard]_vars

----------------------------------------------------------------------------
(* SpecSearch: scramble_board, then astar and greedy_best_first on the       *)
(* board it returns                                                          *)

InitSearch ==
    /\ \/ \E N \in Sizes : sboard = Board(Solved(N)) /\ fromFile = FALSE
       \/ \E t \in Perms(0..3) : sboard = Board(t) /\ fromFile = TRUE
    /\ k = 0
    /\ pc = "scramble"
    /\ max_iters = 0
    /\ pq = {}
    /\ counter = 0
    /\ came_from = <<>>
    /\ g_score = <<>>
    /\ popped = None
    /\ iters = 0
    /\ astar_result = Pending
    /\ greedy_result = Pending
    /\ hint_astar = "pending"
    /\ hint_greedy = "pending"
    /\ IdleBoardVars
    /\ IdleCtorVars
    /\ IdleDisplayVars

\* one pass of the loop of scramble_board: m = random.choice(b.valid_moves())
Scramble ==
    /\ pc = "scramble"
    /\ ~fromFile
    /\ k < ScrambleDepth
    /\ \E i \in 1..Len(valid_moves(sboard)) :
          sboard' = apply_move(sboard, valid_moves(sboard)[i])
    /\ k' = k + 1
    /\ UNCHANGED <<fromFile, pc, max_iters, pq, counter, came_from, g_score, popped, iters,
                   astar_result, greedy_result, hint_astar, hint_greedy>>
    /\ UNCHANGED <<boardVars, ctorVars, displayVars>>

\* the statements of a search before its loop
EnterSearch(cap) ==
    LET start_tiles == sboard.tiles
        start_h == manhattan(sboard) + linear_conflict(sboard)
    IN  /\ max_iters' = cap
        /\ pq' = {IF pc' = "astar" THEN <<start_h, 0, 0, start_tiles>>
                  ELSE <<start_h, 0, start_tiles>>}
        /\ counter' = 1
        /\ came_from' = (start_tiles :> None)
        /\ g_score' = (start_tiles :> 0)
        /\ popped' = None
        /\ iters' = 0

\* the return of a search: its locals are gone
LeaveSearch ==
    /\ pq' = {}
    /\ counter' = 0
    /\ came_from' = <<>>
    /\ g_score' = <<>>
    /\ popped' = None

\* astar(start_board, time_limit, max_iters) is called on the scrambled board
StartAstar ==
    /\ pc = "scramble"
    /\ pc' = "astar"
    /\ \E cap \in IterCaps : EnterSearch(cap)
    /\ UNCHANGED <<sboard, fromFile, k, astar_result, greedy_result,
                   hint_astar, hint_greedy>>
    /\ UNCHANGED <<boardVars, ctorVars, displayVars>>

\* greedy_best_first(start_board, time_limit, max_iters) on the same board
StartGreedy ==
    /\ pc = "astar_done"
    /\ pc' = "greedy"
    /\ \E cap \in IterCaps : EnterSearch(cap)
    /\ UNCHANGED <<sboard, fromFile, k, astar_result, greedy_result,
                   hint_astar, hint_greedy>>
    /\ UNCHANGED <<boardVars, ctorVars, displayVars>>

Running == pc \in {"astar", "greedy"}
Alg == IF pc = "astar" THEN "astar" ELSE "greedy"

\* no move: the None of next_move_astar and next_move_greedy
NoMove == "None"

\* next_move returning the last move of the path in place of the first
next_move_lastMove(res) ==
    IF res.kind = "path" /\ Len(res.path) > 0 THEN res.path[Len(res.path)] ELSE NoMove

\* next_move_astar and next_move_greedy, from the path the search returned
next_move(res) ==
    IF res.kind = "path" /\ Len(res.path) > 0 THEN res.path[1] ELSE NoMove

\* the running search returns res to next_move_astar (next_move_greedy), which
\* returns in turn
Return(res) ==
    /\ IF pc = "astar"
       THEN /\ astar_result' = res /\ hint_astar' = next_move(res)
            /\ pc' = "astar_done"
            /\ UNCHANGED <<greedy_result, hint_greedy>>
       ELSE /\ greedy_result' = res /\ hint_greedy' = next_move(res)
            /\ pc' = "done"
            /\ UNCHANGED <<astar_result, hint_astar>>
    /\ LeaveSearch
    /\ UNCHANGED <<sboard, fromFile, k, max_iters>>
    /\ UNCHANGED <<boardVars, ctorVars, displayVars>>

\* "while pq" ends: return None
FrontierEmpty ==
    /\ Running
    /\ pq = {}
    /\ UNCHANGED iters
    /\ Return(NotFound("empty"))

\* time.time() - start_time > time_limit: return None
TimeLimit ==
    /\ Running
    /\ pq # {}
    /\ UNCHANGED iters
    /\ Return(NotFound("time"))

\* the cap compared with the iterations made before this one
CapExceeded_beforeCounting == iters > max_iters

\* "iters += 1; if iters > max_iters", at the top of an iteration
CapExceeded == iters + 1 > max_iters

\* iters > max_iters: return None
IterCap ==
    /\ Running
    /\ pq # {}
    /\ CapExceeded
    /\ iters' = iters + 1
    /\ Return(NotFound("iters"))

\* the tiles and the cost of a frontier entry
EntryTiles(e) == e[Len(e)]
EntryG(e) == IF Len(e) = 4 THEN e[2] ELSE 0

\* the popped board is terminal: reconstruct the path and return it
PopGoal ==
    /\ Running
    /\ pq # {}
    /\ ~CapExceeded
    /\ LET e == heappop(pq)
           tiles == EntryTiles(e)
       IN  /\ isterminal(Board(tiles))
           /\ Return(Found(Reconstruct(came_from, sboard.tiles, tiles)))
    /\ iters' = iters + 1

\* the popped board is not terminal: expand it
PopExpand ==
    /\ Running
    /\ pq # {}
    /\ ~CapExceeded
    /\ LET e == heappop(pq)
           tiles == EntryTiles(e)
           board == Board(tiles)
           st == Expand(Alg, Locals(pq \ {e}, counter, came_from, g_score),
                        board, EntryG(e), tiles, 1)
       IN  /\ ~isterminal(board)
           /\ pq' = st.pq
           /\ counter' = st.counter
           /\ came_from' = st.came_from
           /\ g_score' = st.g_score
           /\ popped' = e
    /\ iters' = iters + 1
    /\ UNCHANGED <<sboard, fromFile, k, pc, max_iters, astar_result, greedy_result,
                   hint_astar, hint_greedy>>
    /\ UNCHANGED <<boardVars, ctorVars, displayVars>>

NextSearch ==
    \/ Scramble
    \/ StartAstar
    \/ StartGreedy
    \/ FrontierEmpty
    \/ TimeLimit
    \/ IterCap
    \/ PopGoal
    \/ PopExpand

SpecSearch == InitSearch /\ [][NextSearch]_vars

\* the two searches called as next_move_astar and next_move_greedy call them,
\* with the default max_iters, and with a time_limit that does not run out
StartAstarUnbound == StartAstar /\ max_iters' = DefaultMaxIters
StartGreedyUnbound == StartGreedy /\ max_iters' = DefaultMaxIters

NextSearchUnbound ==
    \/ Scramble
    \/ StartAstarUnbound
    \/ StartGreedyUnbound
    \/ FrontierEmpty
    \/ PopGoal
    \/ PopExpand

SpecSearchUnbound == InitSearch /\ [][NextSearchUnbound]_vars

\* 3 x 3 boards loaded from a file, 16 and 17 moves from the solved board; on
\* the first four astar pops an entry after a cheaper one for the same board
DeepStarts ==
    {<<2, 4, 1, 6, 0, 5, 7, 8, 3>>, <<4, 8, 3, 2, 0, 6, 1, 5, 7>>,
     <<2, 4, 1, 6, 8, 5, 7, 0, 3>>, <<3, 1, 2, 0, 5, 8, 4, 6, 7>>,
     <<2, 1, 8, 4, 0, 3, 7, 6, 5>>}

InitDeep ==
    /\ \E t \in DeepStarts : sboard = Board(t)
    /\ fromFile = TRUE
    /\ k = 0
    /\ pc = "scramble"
    /\ max_iters = 0
    /\ pq = {}
    /\ counter = 0
    /\ came_from = <<>>
    /\ g_score = <<>>
    /\ popped = None
    /\ iters = 0
    /\ astar_result = Pending
    /\ greedy_result = Pending
    /\ hint_astar = "pending"
    /\ hint_greedy = "pending"
    /\ IdleBoardVars
    /\ IdleCtorVars
    /\ IdleDisplayVars

\* astar alone, with the default max_iters, on these boards
NextDeep ==
    \/ StartAstarUnbound
    \/ PopGoal
    \/ PopExpand

SpecDeep == InitDeep /\ [][NextDeep]_vars

----------------------------------------------------------------------------
(* SpecWalk: scramble_board alone, with scrambles long enough to reach the   *)
(* boards that are far from the solved board                                 *)

InitWalk ==
    /\ \E N \in Sizes : sboard = Board(Solved(N))
    /\ fromFile = FALSE
    /\ k = 0
    /\ pc = "walk"
    /\ max_iters = 0
    /\ pq = {}
    /\ counter = 0
    /\ came_from = <<>>
    /\ g_score = <<>>
    /\ popped = None
    /\ iters = 0
    /\ astar_result = Pending
    /\ greedy_result = Pending
    /\ hint_astar = "pending"
    /\ hint_greedy = "pending"
    /\ IdleBoardVars
    /\ IdleCtorVars
    /\ IdleDisplayVars

\* one pass of the loop of scramble_board: m = random.choice(b.valid_moves())
Walk ==
    /\ pc = "walk"
    /\ k < WalkDepth
    /\ \E i \in 1..Len(valid_moves(sboard)) :
          sboard' = apply_move(sboard, valid_moves(sboard)[i])
    /\ k' = k + 1
    /\ UNCHANGED <<fromFile, pc, max_iters, pq, counter, came_from, g_score, popped, iters,
                   astar_result, greedy_result, hint_astar, hint_greedy>>
    /\ UNCHANGED <<boardVars, ctorVars, displayVars>>

NextWalk == Walk

SpecWalk == InitWalk /\ [][NextWalk]_vars

----------------------------------------------------------------------------
(* SpecCtor: callers of the Board constructor, with the two forms of         *)
(* argument it accepts: a flat list of ints and a list of rows               *)

\* n tiles in solved order: 1..n-1, then the blank
FillTiles(n) == [i \in 1..n |-> IF i = n THEN 0 ELSE i]

RECURSIVE Sum(_)
Sum(lens) == IF lens = <<>> THEN 0 ELSE Head(lens) + Sum(Tail(lens))

\* the list of rows with the given lengths that holds FillTiles row by row
RowsOf(lens) ==
    LET flat == FillTiles(Sum(lens))
    IN  [i \in 1..Len(lens) |->
            SubSeq(flat, Sum(SubSeq(lens, 1, i - 1)) + 1, Sum(SubSeq(lens, 1, i)))]

\* the arguments passed: flat lists of distinct tiles, and lists of rows of
\* any lengths
FlatArgs ==
    UNION {{t \in [1..n -> 0..(MaxFlat - 1)] : \A i, j \in 1..n : t[i] = t[j] => i = j}
           : n \in 0..MaxFlat}
RowArgs ==
    UNION {{RowsOf(lens) : lens \in [1..n -> 0..MaxRowLen]} : n \in 1..MaxRows}
CtorArgs ==
    {[nested |-> FALSE, flat |-> t, rows |-> <<>>] : t \in FlatArgs}
    \cup {[nested |-> TRUE, flat |-> <<>>, rows |-> r] : r \in RowArgs}

InitCtor ==
    /\ IdleCtorVars
    /\ IdleBoardVars
    /\ IdleSearchVarsAt("ctor")
    /\ IdleDisplayVars

\* Board(arg)
Construct(arg) ==
    /\ pc = "ctor"
    /\ ctor_arg' = arg
    /\ ctor_out' = Board_init(arg)
    /\ UNCHANGED <<boardVars, searchVars, displayVars>>

NextCtor == \E arg \in CtorArgs : Construct(arg)

SpecCtor == InitCtor /\ [][NextCtor]_vars

----------------------------------------------------------------------------
(* SpecDisplay: the frames of main (the key handlers, the auto-run block and  *)
(* the info panel) and the worker threads of _start_astar_search and         *)
(* _start_greedy_search, which run beside them. A step of main holds at most *)
(* one access to search_in_progress, search_path or search_board_hash, the   *)
(* variables the setter of a worker thread assigns                           *)

\* astar (alg = "astar") or greedy_best_first run as one call, from the state
\* st of its loop after it iterations, with the default max_iters
RECURSIVE SearchLoop(_, _, _, _)
SearchLoop(alg, start_tiles, st, it) ==
    IF st.pq = {} THEN NotFound("empty")
    ELSE IF it + 1 > DefaultMaxIters THEN NotFound("iters")
    ELSE LET e == heappop(st.pq)
             tiles == EntryTiles(e)
             b == Board(tiles)
         IN  IF isterminalRaises(b) THEN RaisedIn("IndexError")
             ELSE IF isterminal(b)
             THEN Found(Reconstruct(st.came_from, start_tiles, tiles))
             ELSE SearchLoop(alg, start_tiles,
                             Expand(alg,
                                    Locals(st.pq \ {e}, st.counter, st.came_from,
                                           st.g_score),
                                    b, EntryG(e), tiles, 1),
                             it + 1)

\* astar(b) or greedy_best_first(b) when the time limit does not end the
\* call: what it returns, or the exception that "board.isterminal()" raises
SearchRun(alg, b) ==
    LET start_h == manhattan(b) + linear_conflict(b)
        first == IF alg = "astar" THEN <<start_h, 0, 0, b.tiles>>
                 ELSE <<start_h, 0, b.tiles>>
    IN  SearchLoop(alg, b.tiles,
                   Locals({first}, 1, (b.tiles :> None), (b.tiles :> 0)), 0)

\* the value _worker hands on: the list of moves, or None when the search
\* returned None or raised
PathOf(res) == IF res.kind = "path" THEN [kind |-> "path", path |-> res.path] ELSE NoPath

\* the tiles reachable from the solved board of size N by at most d legal moves
RECURSIVE ScrambledWithin(_, _)
ScrambledWithin(N, d) ==
    IF d = 0 THEN {Solved(N)}
    ELSE LET S == ScrambledWithin(N, d - 1)
         IN  S \cup {apply_move(Board(t), valid_moves(Board(t))[i]).tiles :
                        <<t, i>> \in {x \in S \X (1..4) : x[2] <= Len(valid_moves(Board(x[1])))}}

\* number of random moves of scramble_board as main calls it
ScrambleMoves == 300

\* t holds each of 0..n-1 once
IsPermutation(t) ==
    /\ DOMAIN t = 1..Len(t)
    /\ \A i \in 1..Len(t) : t[i] \in 0..(Len(t) - 1)
    /\ \A i, j \in 1..Len(t) : t[i] = t[j] => i = j

\* the number of pairs of cells that hold their contents in the other order
\* than the solved board does (the blank is the last content)
Inversions(t) ==
    LET rank(v) == IF v = 0 THEN Len(t) ELSE v
    IN  Cardinality({p \in (1..Len(t)) \X (1..Len(t)) :
                        p[1] < p[2] /\ rank(t[p[1]]) > rank(t[p[2]])})

\* the number of rows plus the number of columns between the blank of t and
\* the bottom-right cell of a board of size N
BlankTravel(t, N) ==
    LET z == CHOOSE i \in 1..Len(t) : t[i] = 0
    IN  (N - 1 - ((z - 1) \div N)) + (N - 1 - ((z - 1) % N))

\* scramble_board(size=N, moves=ScrambleMoves) raises IndexError: the solved
\* board it builds has one cell (N is -1, 0 or 1), valid_moves() is empty and
\* random.choice has nothing to choose from
ScrambleRaises(N) == ScrambleMoves > 0 /\ valid_moves(Board(Solved(N))) = <<>>

\* every random move of scramble_board(size=N) exchanges the blank with a
\* neighbour, so on the board it returns the parity of the inversions and of
\* the blank's travel are those of the number of moves
ScrambleParity(t, N) ==
    LET b == Board(Solved(N))
    IN  /\ ~ScrambleRaises(N)
        /\ Len(t) = Len(b.tiles)
        /\ IsPermutation(t)
        /\ Inversions(t) % 2 = ScrambleMoves % 2
        /\ BlankTravel(t, b.size) % 2 = ScrambleMoves % 2

\* scramble_board(size=N, moves=ScrambleMoves) can return the board of tiles
\* t: a move can be taken back by the next one, so a board of the parity of
\* ScrambleMoves is returned if ScrambleMoves moves or fewer reach it, as
\* they do every board of up to 4 x 4 cells (the longest shortest solutions
\* there are 6, 31 and 80 moves)
ScrambleResult(t, N) ==
    /\ ScrambleParity(t, N)
    /\ Board(Solved(N)).size > 4 => t \in ScrambledWithin(N, ScrambleMoves)

\* the boards scramble_board(size=N, moves=ScrambleMoves) returns
ScrambledBoards(N) ==
    LET n == Len(Solved(N))
    IN  {Board(t) : t \in {u \in [1..n -> 0..(n - 1)] : ScrambleResult(u, N)}}

\* load_board_from_file returns (Board(t), N): the first line of the file
\* gives N and the next N lines hold N ints each, whatever ints they are; with
\* N of 0 or less no line is read and the board has no tiles
LoadResult(t, N) ==
    /\ N \in Int
    /\ DOMAIN t = 1..Len(t)
    /\ Len(t) = IF N > 0 THEN N * N ELSE 0
    /\ \A i \in 1..Len(t) : t[i] \in Int

\* tuple(board.tiles) in a variable that holds None otherwise
Hash(tiles) == <<tiles>>

\* the state in which main enters its event loop: on the board and with the
\* size of the file named on the command line, or on a scrambled 4 x 4 board
InitDisplay ==
    /\ main_board = Board(main_board.tiles)
    /\ \/ LoadResult(main_board.tiles, main_size)
       \/ main_size = 4 /\ ScrambleResult(main_board.tiles, 4)
    /\ start_board = main_board
    /\ nkeys = 0
    /\ running = TRUE
    /\ at = "events"
    /\ event_key = ""
    /\ history = <<>>
    /\ auto_run_mode = FALSE
    /\ auto_run_index = 0
    /\ path_from = 0
    /\ applied = None
    /\ search_in_progress = FALSE
    /\ search_path = NoPath
    /\ search_board_hash = None
    /\ threads = <<>>
    /\ IdleBoardVars
    /\ IdleSearchVarsAt("display")
    /\ IdleCtorVars

\* the boards the n key draws in the runs of the model, of those that
\* scramble_board(size=N) returns: every one on 2 x 2 cells, and on more cells
\* the ones StartDepth moves or fewer from solved
DisplayStarts(N) ==
    IF Len(Solved(N)) = 4
    THEN {u \in [1..4 -> 0..3] : ScrambleResult(u, N)}
    ELSE {u \in ScrambledWithin(N, StartDepth) : ScrambleParity(u, N)}

\* a 2 x 2 board that no move sequence solves, and one without a blank
Unsolvable2 == <<2, 1, 3, 0>>
NoBlank2 == <<1, 1, 1, 1>>

\* the boards of the files of size N that the runs of the model start on: the
\* board without tiles for N of 0 or less, the solved board, the boards that
\* the n key draws and, on 2 x 2 cells, Unsolvable2 and NoBlank2
FileStarts(N) ==
    IF N <= 0 THEN {<<>>}
    ELSE {Solved(N)} \cup DisplayStarts(N)
         \cup (IF N = 2 THEN {Unsolvable2, NoBlank2} ELSE {})

\* the sizes of the files that the runs of the model start on
FileSizes == (-MaxSize)..MaxSize

\* InitDisplay on the bounded set of sizes and boards
InitDisplayBounded ==
    /\ main_size \in FileSizes
    /\ main_board \in {Board(t) : t \in FileStarts(main_size)}
    /\ InitDisplay

\* a step of main at location loc of a frame; the exception e ends main
MainStep(loc) ==
    /\ pc = "display"
    /\ at = loc
    /\ UNCHANGED main_size
    /\ UNCHANGED <<boardVars, ctorVars>>
    /\ UNCHANGED <<sboard, fromFile, k, max_iters, pq, counter, came_from, g_score, popped,
                   iters, astar_result, greedy_result, hint_astar, hint_greedy>>

\* the frame is over: "while running" is tested, and when it fails main
\* leaves the loop and stands before pygame.quit() and sys.exit(0)
FrameEnd ==
    /\ at' = "events"
    /\ pc' = IF running THEN pc ELSE "quit"

\* a KEYDOWN event is taken from the queue
KeyTaken ==
    /\ MainStep("events")
    /\ nkeys < MaxKeys
    /\ nkeys' = nkeys + 1
    /\ UNCHANGED running

\* a KEYDOWN event whose handler raises nothing
KeyDown ==
    /\ KeyTaken
    /\ pc' = pc

\* an arrow key: if the move is valid the board goes on history and the move
\* is applied
KeyArrow(move) ==
    /\ KeyDown
    /\ IF Contains(valid_moves(main_board), move)
       THEN /\ history' = Append(history, main_board)
            /\ main_board' = apply_move(main_board, move)
       ELSE UNCHANGED <<history, main_board>>
    /\ UNCHANGED <<start_board, search_in_progress, search_path, search_board_hash,
                   threads, path_from, auto_run_mode, auto_run_index, applied, at,
                   event_key>>

\* the u key: auto-run is cancelled and the last board of history comes back
KeyUndo ==
    /\ KeyDown
    /\ auto_run_mode' = FALSE
    /\ IF history # <<>>
       THEN /\ main_board' = history[Len(history)]
            /\ history' = SubSeq(history, 1, Len(history) - 1)
       ELSE UNCHANGED <<history, main_board>>
    /\ UNCHANGED <<start_board, search_in_progress, search_path, search_board_hash,
                   threads, path_from, auto_run_index, applied, at, event_key>>

\* the r key up to "search_path = None": auto-run and the flag are cleared
\* and the starting board comes back
KeyReset ==
    /\ KeyDown
    /\ auto_run_mode' = FALSE
    /\ search_in_progress' = FALSE
    /\ main_board' = start_board
    /\ history' = <<>>
    /\ at' = "clear_path"
    /\ UNCHANGED <<start_board, threads, auto_run_index, applied, search_path, path_from,
                   search_board_hash, event_key>>

\* the n key up to "search_path = None": auto-run and the flag are cleared,
\* and scramble_board(size=size, moves=300) raises IndexError, which ends
\* main, or returns the new board and starting board
KeyNew ==
    /\ KeyTaken
    /\ auto_run_mode' = FALSE
    /\ search_in_progress' = FALSE
    /\ IF ScrambleRaises(main_size)
       THEN /\ pc' = "IndexError"
            /\ UNCHANGED <<main_board, start_board, history, at>>
       ELSE /\ pc' = pc
            /\ \E t \in DisplayStarts(main_size) :
                  /\ main_board' = Board(t)
                  /\ start_board' = Board(t)
            /\ history' = <<>>
            /\ at' = "clear_path"
    /\ UNCHANGED <<threads, auto_run_index, applied, search_path, path_from,
                   search_board_hash, event_key>>

\* "search_path = None" of the r and n handlers
ClearPath ==
    /\ MainStep("clear_path")
    /\ search_path' = NoPath
    /\ path_from' = 0
    /\ at' = "clear_hash"
    /\ pc' = pc
    /\ UNCHANGED <<main_board, start_board, nkeys, running, event_key, search_in_progress,
                   search_board_hash, threads, autoVars>>

\* "search_board_hash = None" of the r and n handlers
ClearHash ==
    /\ MainStep("clear_hash")
    /\ search_board_hash' = None
    /\ at' = "events"
    /\ pc' = pc
    /\ UNCHANGED <<main_board, start_board, nkeys, running, event_key, search_in_progress,
                   search_path, path_from, threads, autoVars>>

\* threading.Thread(target=_worker, args=(board.copy(), time_limit, setter)),
\* started: the new thread with its locals; start_tiles records the tiles of
\* the board the search was started for
NewThread(alg, brd) ==
    [alg |-> alg, bcopy |-> brd, start_tiles |-> brd.tiles, pc |-> "search",
     path |-> NoPath, board_hash |-> None, calls |-> 0, got |-> None]

\* the s key (alg = "astar") and the g key (alg = "greedy"): the test
\* "if not search_in_progress"
KeySearch(alg) ==
    /\ KeyDown
    /\ IF ~search_in_progress
       THEN at' = "search_flag" /\ event_key' = alg
       ELSE UNCHANGED <<at, event_key>>
    /\ UNCHANGED <<main_board, start_board, search_in_progress, search_path, path_from,
                   search_board_hash, threads, autoVars>>

\* "search_in_progress = True" of the s and g handlers
SearchFlag ==
    /\ MainStep("search_flag")
    /\ search_in_progress' = TRUE
    /\ at' = "search_path"
    /\ pc' = pc
    /\ UNCHANGED <<main_board, start_board, nkeys, running, event_key, search_path,
                   path_from, search_board_hash, threads, autoVars>>

\* "search_path = None" of the s and g handlers
SearchClearPath ==
    /\ MainStep("search_path")
    /\ search_path' = NoPath
    /\ path_from' = 0
    /\ at' = "search_hash"
    /\ pc' = pc
    /\ UNCHANGED <<main_board, start_board, nkeys, running, event_key, search_in_progress,
                   search_board_hash, threads, autoVars>>

\* "search_board_hash = tuple(board.tiles)" of the s and g handlers, and the
\* start of the worker thread on a copy of the board
SearchStart ==
    /\ MainStep("search_hash")
    /\ search_board_hash' = Hash(main_board.tiles)
    /\ threads' = Append(threads, NewThread(event_key, main_board))
    /\ event_key' = ""
    /\ at' = "events"
    /\ pc' = pc
    /\ UNCHANGED <<main_board, start_board, nkeys, running, search_in_progress,
                   search_path, path_from, autoVars>>

\* the SPACE key: the test "if search_path is not None"
KeySpace ==
    /\ KeyDown
    /\ at' = IF search_path # NoPath THEN "space_hash" ELSE "events"
    /\ UNCHANGED <<main_board, start_board, search_in_progress, search_path,
                   search_board_hash, threads, path_from, autoVars, event_key>>

\* the SPACE key: auto-run starts if search_board_hash is the board on display
SpaceHash ==
    /\ MainStep("space_hash")
    /\ IF Hash(main_board.tiles) = search_board_hash
       THEN /\ auto_run_mode' = TRUE
            /\ auto_run_index' = 0
       ELSE UNCHANGED <<auto_run_mode, auto_run_index>>
    /\ at' = "events"
    /\ pc' = pc
    /\ UNCHANGED <<main_board, start_board, nkeys, running, event_key, search_in_progress,
                   search_path, search_board_hash, threads, path_from, history, applied>>

\* where the frame goes on after the for loop: the condition of the auto-run
\* block reads search_path only if auto_run_mode is set
AfterEvents == IF auto_run_mode THEN "auto" ELSE "panel"

\* the frame after the for loop, up to the auto-run block: "board.isterminal()"
\* raises IndexError, which ends main, on a board without tiles
AfterLoop ==
    IF isterminalRaises(main_board)
    THEN pc' = "IndexError" /\ at' = at
    ELSE pc' = pc /\ at' = AfterEvents

\* QUIT or the escape key: running = False and the for loop is left; the rest
\* of the frame is still executed
Quit ==
    /\ MainStep("events")
    /\ running' = FALSE
    /\ AfterLoop
    /\ UNCHANGED <<main_board, start_board, nkeys, event_key, search_in_progress,
                   search_path, search_board_hash, threads, path_from, autoVars>>

\* the event queue is empty: the frame goes on after the for loop
EventsDone ==
    /\ MainStep("events")
    /\ AfterLoop
    /\ UNCHANGED <<main_board, start_board, nkeys, running, event_key, search_in_progress,
                   search_path, search_board_hash, threads, path_from, autoVars>>

\* the tiles the path on search_path was delivered with
PathFingerprint == IF path_from = 0 THEN None ELSE threads[path_from].got[2]

\* what a step of the auto-run block or of the info panel leaves alone
FrameStepKeeps ==
    UNCHANGED <<start_board, nkeys, running, event_key, search_in_progress,
                search_board_hash, threads>>

\* the auto-run block with auto_run_mode set: "and search_path" of its
\* condition, which fails on None and on the empty list
AutoGuard ==
    /\ MainStep("auto")
    /\ at' = IF search_path # NoPath /\ search_path.path # <<>> THEN "auto_len" ELSE "panel"
    /\ pc' = pc
    /\ FrameStepKeeps
    /\ UNCHANGED <<main_board, search_path, path_from, autoVars>>

\* the auto-run block: "auto_run_index < len(search_path)" of its condition;
\* len raises TypeError when search_path is None by now
AutoLen ==
    /\ MainStep("auto_len")
    /\ IF search_path = NoPath
       THEN pc' = "TypeError" /\ at' = at
       ELSE /\ pc' = pc
            /\ at' = IF auto_run_index < Len(search_path.path) THEN "auto_due" ELSE "panel"
    /\ FrameStepKeeps
    /\ UNCHANGED <<main_board, search_path, path_from, autoVars>>

\* the auto-run block in a frame in which the step interval has not elapsed
AutoWait ==
    /\ MainStep("auto_due")
    /\ at' = "auto_fin"
    /\ pc' = pc
    /\ FrameStepKeeps
    /\ UNCHANGED <<main_board, search_path, path_from, autoVars>>

\* the auto-run block in a frame in which the step interval has elapsed:
\* "mv = search_path[auto_run_index]" raises TypeError when search_path is
\* None by now and IndexError when it is a shorter path; a valid mv is
\* applied and auto_run_index goes up by one; on any other mv auto-run is
\* turned off, and the index goes up after "search_path = None"
AutoRunStep ==
    /\ MainStep("auto_due")
    /\ FrameStepKeeps
    /\ UNCHANGED <<search_path, path_from>>
    /\ IF search_path = NoPath
       THEN pc' = "TypeError" /\ at' = at /\ UNCHANGED <<main_board, autoVars>>
       ELSE IF auto_run_index >= Len(search_path.path)
       THEN pc' = "IndexError" /\ at' = at /\ UNCHANGED <<main_board, autoVars>>
       ELSE LET mv == search_path.path[auto_run_index + 1]
            IN  /\ pc' = pc
                /\ IF Contains(valid_moves(main_board), mv)
                   THEN /\ history' = Append(history, main_board)
                        /\ main_board' = apply_move(main_board, mv)
                        /\ applied' = [path |-> search_path.path, i |-> auto_run_index,
                                       on |-> main_board.tiles,
                                       fingerprint |-> PathFingerprint]
                        /\ auto_run_index' = auto_run_index + 1
                        /\ at' = "auto_fin"
                        /\ UNCHANGED auto_run_mode
                   ELSE /\ auto_run_mode' = FALSE
                        /\ at' = "auto_clear"
                        /\ UNCHANGED <<history, main_board, applied, auto_run_index>>

\* the auto-run block: "search_path = None" after a move that is not valid,
\* and "auto_run_index += 1"
AutoClear ==
    /\ MainStep("auto_clear")
    /\ search_path' = NoPath
    /\ path_from' = 0
    /\ auto_run_index' = auto_run_index + 1
    /\ at' = "auto_fin"
    /\ pc' = pc
    /\ FrameStepKeeps
    /\ UNCHANGED <<main_board, history, auto_run_mode, applied>>

\* the auto-run block: "if auto_run_index >= len(search_path)"; len raises
\* TypeError when search_path is None by now, as it is after AutoClear
AutoFinished ==
    /\ MainStep("auto_fin")
    /\ FrameStepKeeps
    /\ UNCHANGED <<main_board, search_path, path_from, history, auto_run_index, applied>>
    /\ IF search_path = NoPath
       THEN pc' = "TypeError" /\ at' = at /\ UNCHANGED auto_run_mode
       ELSE /\ pc' = pc
            /\ IF auto_run_index >= Len(search_path.path)
               THEN auto_run_mode' = FALSE /\ at' = "auto_fin_clear"
               ELSE at' = "panel" /\ UNCHANGED auto_run_mode

\* the auto-run block: "search_path = None" of a finished run
AutoFinishedClear ==
    /\ MainStep("auto_fin_clear")
    /\ search_path' = NoPath
    /\ path_from' = 0
    /\ at' = "panel"
    /\ pc' = pc
    /\ FrameStepKeeps
    /\ UNCHANGED <<main_board, autoVars>>

\* the info panel: "if search_in_progress"
PanelStatus ==
    /\ MainStep("panel")
    /\ IF search_in_progress THEN FrameEnd ELSE at' = "panel_path" /\ pc' = pc
    /\ FrameStepKeeps
    /\ UNCHANGED <<main_board, search_path, path_from, autoVars>>

\* the info panel: "elif search_path is not None"
PanelPath ==
    /\ MainStep("panel_path")
    /\ IF search_path # NoPath THEN at' = "panel_len" /\ pc' = pc ELSE FrameEnd
    /\ FrameStepKeeps
    /\ UNCHANGED <<main_board, search_path, path_from, autoVars>>

\* the info panel: len(search_path) in the text of either branch; it raises
\* TypeError when search_path is None by now
PanelLen ==
    /\ MainStep("panel_len")
    /\ IF search_path = NoPath THEN pc' = "TypeError" /\ at' = at ELSE FrameEnd
    /\ FrameStepKeeps
    /\ UNCHANGED <<main_board, search_path, path_from, autoVars>>

\* the process lives: main is in its loop, or it has left the loop and
\* pygame.quit() and sys.exit(0) are not through yet, or the exception that
\* ended main is being reported
ProcessAlive == pc \in {"display", "quit", "IndexError", "TypeError"}

\* a step of thread i, which is scheduled as long as the process lives,
\* leaves the rest of the program alone
ThreadStep(i, from) ==
    /\ ProcessAlive
    /\ i \in 1..Len(threads)
    /\ threads[i].pc = from
    /\ UNCHANGED <<boardVars, searchVars, ctorVars, main_size, main_board, start_board,
                   nkeys, running, at, event_key, autoVars>>

\* the outcomes of the search of _worker on board b: what the call returns
\* when the time limit does not end it, None when the time limit ends it, and
\* None when the call raises
SearchOutcomes(alg, b) ==
    {SearchRun(alg, b), NotFound("time"), NotFound("raised")}

\* _worker with board_hash taken from the board on display when the search
\* ends, not from the copy the thread was given
WorkerSearch_hashOfDisplayedBoard(i) ==
    /\ ThreadStep(i, "search")
    /\ \E res \in SearchOutcomes(threads[i].alg, threads[i].bcopy) :
          threads' = [threads EXCEPT ![i].path = PathOf(res),
                                     ![i].board_hash = main_board.tiles,
                                     ![i].pc = "call"]
    /\ UNCHANGED <<search_in_progress, search_path, search_board_hash, path_from>>

\* _worker up to the call of cb: the search returns a path or None, or it
\* raises and path is None; board_hash is taken from the thread's own copy
WorkerSearch(i) ==
    /\ ThreadStep(i, "search")
    /\ \E res \in SearchOutcomes(threads[i].alg, threads[i].bcopy) :
          threads' = [threads EXCEPT ![i].path = PathOf(res),
                                     ![i].board_hash = threads[i].bcopy.tiles,
                                     ![i].pc = "call"]
    /\ UNCHANGED <<search_in_progress, search_path, search_board_hash, path_from>>

\* cb(path, board_hash): _setter is entered and executes
\* "search_in_progress = False"
SetterInProgress(i) ==
    /\ ThreadStep(i, "call")
    /\ threads' = [threads EXCEPT ![i].calls = @ + 1,
                                  ![i].got = <<threads[i].path, threads[i].board_hash>>,
                                  ![i].pc = "set_path"]
    /\ search_in_progress' = FALSE
    /\ UNCHANGED <<search_path, search_board_hash, path_from>>

\* _setter: "search_path = result"
SetterPath(i) ==
    /\ ThreadStep(i, "set_path")
    /\ search_path' = threads[i].got[1]
    /\ path_from' = i
    /\ threads' = [threads EXCEPT ![i].pc = "set_hash"]
    /\ UNCHANGED <<search_in_progress, search_board_hash>>

\* _setter: "search_board_hash = bh"; _setter and _worker return
SetterHash(i) ==
    /\ ThreadStep(i, "set_hash")
    /\ search_board_hash' = Hash(threads[i].got[2])
    /\ threads' = [threads EXCEPT ![i].pc = "ended"]
    /\ UNCHANGED <<search_in_progress, search_path, path_from>>

\* the process ends: pygame.quit() and sys.exit(0) after the loop, or the
\* interpreter's exit on the exception that main() raised; the daemon threads
\* end with it wherever they are
Exit ==
    /\ pc \in {"quit", "IndexError", "TypeError"}
    /\ pc' = "exited"
    /\ UNCHANGED <<boardVars, ctorVars, displayVars>>
    /\ UNCHANGED <<sboard, fromFile, k, max_iters, pq, counter, came_from, g_score, popped,
                   iters, astar_result, greedy_result, hint_astar, hint_greedy>>

NextDisplay ==
    \/ \E move \in Moves : KeyArrow(move)
    \/ KeyUndo
    \/ KeyReset
    \/ KeyNew
    \/ ClearPath
    \/ ClearHash
    \/ \E alg \in {"astar", "greedy"} : KeySearch(alg)
    \/ SearchFlag
    \/ SearchClearPath
    \/ SearchStart
    \/ KeySpace
    \/ SpaceHash
    \/ Quit
    \/ EventsDone
    \/ AutoGuard
    \/ AutoLen
    \/ AutoWait
    \/ AutoRunStep
    \/ AutoClear
    \/ AutoFinished
    \/ AutoFinishedClear
    \/ PanelStatus
    \/ PanelPath
    \/ PanelLen
    \/ Exit
    \/ \E i \in 1..MaxKeys : WorkerSearch(i)
    \/ \E i \in 1..MaxKeys : SetterInProgress(i)
    \/ \E i \in 1..MaxKeys : SetterPath(i)
    \/ \E i \in 1..MaxKeys : SetterHash(i)

SpecDisplay == InitDisplayBounded /\ [][NextDisplay]_vars

\* _worker up to the call of cb when the time limit ends its search: one of
\* the steps of WorkerSearch(i)
WorkerTimeLimit(i) ==
    /\ ThreadStep(i, "search")
    /\ threads' = [threads EXCEPT ![i].path = PathOf(NotFound("time")),
                                  ![i].board_hash = threads[i].bcopy.tiles,
                                  ![i].pc = "call"]
    /\ UNCHANGED <<search_in_progress, search_path, search_board_hash, path_from>>

\* the statements of worker thread i: _worker and the setter it calls (the
\* step that every thread in its search can take is named first, which
\* decides ENABLED without running the search)
ThreadNext(i) ==
    \/ WorkerTimeLimit(i)
    \/ WorkerSearch(i)
    \/ SetterInProgress(i)
    \/ SetterPath(i)
    \/ SetterHash(i)

\* a 2 x 2 board that scramble_board returns, two moves from solved
Scrambled2 == <<0, 1, 3, 2>>

\* InitDisplay on a file without rows, on a file of the 1 x 1 board and on a
\* file of Scrambled2
InitDisplayFair ==
    /\ main_size \in 0..2
    /\ main_board = Board(IF main_size = 0 THEN <<>>
                          ELSE IF main_size = 1 THEN Solved(1) ELSE Scrambled2)
    /\ InitDisplay

\* the display loop with the scheduling of the threads: a started thread
\* that can execute its next statement gets to execute it, as long as the
\* process lives (the threads are daemon threads); nothing is assumed of
\* main, which waits for events and may end the process at any time
SpecDisplayFair ==
    InitDisplayFair /\ [][NextDisplay]_vars /\ \A i \in 1..MaxKeys : WF_vars(ThreadNext(i))

\* all the programs
Init == InitBoard \/ InitSearch \/ InitWalk \/ InitCtor \/ InitDisplay
Next == NextBoard \/ NextSearch \/ NextWalk \/ NextCtor \/ NextDisplay
Spec == Init /\ [][Next]_vars

----------------------------------------------------------------------------
(* Reference notions the claims are stated with *)

\* inverse(m)
Inverse(m) ==
    IF m = "up" THEN "down"
    ELSE IF m = "down" THEN "up"
    ELSE IF m = "left" THEN "right"
    ELSE "left"

\* L[d + 1] is the set of tiles of U from which at most d legal moves lead to
\* the solved board, for d = 0..depth
RECURSIVE GoalLayers(_, _, _)
GoalLayers(U, N, depth) ==
    IF depth = 0 THEN <<{Solved(N)}>>
    ELSE LET L == GoalLayers(U, N, depth - 1)
             W == L[depth]
         IN  Append(L, W \cup {t \in U : \E i \in 1..Len(valid_moves(Board(t))) :
                                   apply_move(Board(t), valid_moves(Board(t))[i]).tiles \in W})

\* the layers of every board size of the model
DistTable ==
    [N \in Sizes |-> GoalLayers(ScrambledWithin(N, ScrambleDepth), N, ScrambleDepth)]

\* tiles t can be brought to the solved board (within the depth of the model)
Reachable(t) == t \in DistTable[isqrt(Len(t))][ScrambleDepth + 1]

\* the minimum number of legal moves that bring a reachable t to the solved board
MinMoves(t) ==
    LET L == DistTable[isqrt(Len(t))]
    IN  CHOOSE d \in 0..ScrambleDepth : t \in L[d + 1] /\ (d = 0 \/ t \notin L[d])

\* a search call that returned, and neither for the time limit nor for the cap
Unbound(res) == res.kind # "pending" /\ res.why \notin {"time", "iters"}

\* replaying path from board b applies legal moves only and ends on the
\* solved board
RECURSIVE ReplayReachesGoal(_, _)
ReplayReachesGoal(b, path) ==
    IF path = <<>> THEN b.tiles = Solved(b.size)
    ELSE /\ Contains(valid_moves(b), Head(path))
         /\ ReplayReachesGoal(apply_move(b, Head(path)), Tail(path))

----------------------------------------------------------------------------
(* Claims about the searches, checked under SpecSearch *)

\* C1: on every 2x2 or 3x3 start reachable from the goal, astar with a budget
\* that does not bind returns a path, and its length is the minimum number of
\* moves from the start to the goal.
C1_AstarPathIsShortest ==
    (Unbound(astar_result) /\ Reachable(sboard.tiles))
        => /\ astar_result.kind = "path"
           /\ Len(astar_result.path) = MinMoves(sboard.tiles)

\* astar has returned a shortest path of 6 moves or more on a 3x3 board
C1_Witness ==
    /\ sboard.size = 3
    /\ astar_result.kind = "path"
    /\ Len(astar_result.path) >= 6
    /\ Len(astar_result.path) = MinMoves(sboard.tiles)

\* C2: a path returned by astar or greedy_best_first, under any budget, replays
\* from the start with legal moves only and ends on the solved board; on a
\* start that is the solved board the path is empty.
C2_ReturnedPathSolves ==
    \A res \in {astar_result, greedy_result} :
        res.kind = "path"
            => /\ ReplayReachesGoal(sboard, res.path)
               /\ (sboard.tiles = Solved(sboard.size) => res.path = <<>>)

\* both searches have returned paths of 3 moves or more
C2_Witness ==
    /\ astar_result.kind = "path" /\ Len(astar_result.path) >= 3
    /\ greedy_result.kind = "path" /\ Len(greedy_result.path) >= 3
    /\ ReplayReachesGoal(sboard, greedy_result.path)

\* C3: on a 3x3 board scrambled from the solved board by k legal moves, astar
\* with a budget that does not bind returns a path of at most k moves.
C3_PathNoLongerThanScramble ==
    (sboard.size = 3 /\ ~fromFile /\ Unbound(astar_result))
        => /\ astar_result.kind = "path"
           /\ Len(astar_result.path) <= k

\* a scramble of 7 moves or more that astar undoes in fewer moves
C3_Witness ==
    /\ sboard.size = 3 /\ ~fromFile /\ k >= 7
    /\ astar_result.kind = "path"
    /\ Len(astar_result.path) > 0
    /\ Len(astar_result.path) < k

\* C4: for every move m legal on the solved 3x3 board, astar on
\* solved.apply_move(m) returns the one-move path <<inverse(m)>>.
C4_OneMoveScramble ==
    \A i \in 1..Len(valid_moves(Board(Solved(3)))) :
        LET m == valid_moves(Board(Solved(3)))[i]
        IN  (/\ sboard.tiles = apply_move(Board(Solved(3)), m).tiles
             /\ sboard.tiles # Solved(3)
             /\ Unbound(astar_result))
                => astar_result = Found(<<Inverse(m)>>)

\* astar has returned on a 3x3 board one move away from the solved board
C4_Witness ==
    /\ sboard.size = 3 /\ k = 1 /\ ~fromFile
    /\ astar_result.kind = "path"
    /\ Len(astar_result.path) = 1

\* C5: when both searches return a path with budgets that do not bind, the
\* path of greedy_best_first is at least as long as the path of astar.
C5_GreedyNoShorter ==
    (astar_result.kind = "path" /\ greedy_result.kind = "path")
        => Len(greedy_result.path) >= Len(astar_result.path)

\* greedy_best_first has returned a strictly longer path than astar
C5_Witness ==
    /\ astar_result.kind = "path" /\ greedy_result.kind = "path"
    /\ Len(greedy_result.path) > Len(astar_result.path)

----------------------------------------------------------------------------
(* Claims about Board.apply_move, checked under SpecBoard *)

\* the last call was made with a move of valid_moves() of the receiver
LastCallLegal == ncalls > 0 /\ Contains(valid_moves(pre), lastMove)
\* the last call was made with any other argument
LastCallIllegal == ncalls > 0 /\ ~Contains(valid_moves(pre), lastMove)

\* the (row, column) of cell i of a board of size N, and the cell of a coordinate
CellPos(N, i) == <<(i - 1) \div N, (i - 1) % N>>
CellOf(N, rc) == rc[1] * N + rc[2] + 1

\* the step a tile makes when it travels in direction m
Delta(m) ==
    IF m = "up" THEN <<-1, 0>>
    ELSE IF m = "down" THEN <<1, 0>>
    ELSE IF m = "left" THEN <<0, -1>>
    ELSE <<0, 1>>

\* tiles holds each of 0..N*N-1 once and positions is its exact inverse
WellFormed(b) ==
    LET n == b.size * b.size
    IN  /\ Len(b.tiles) = n
        /\ \A v \in 0..(n - 1) : Cardinality({i \in 1..n : b.tiles[i] = v}) = 1
        /\ DOMAIN b.positions = 0..(n - 1)
        /\ \A i \in 1..n : b.positions[b.tiles[i]] = CellPos(b.size, i)

\* C6: after a legal move m, inverse(m) is legal on the board returned, and
\* applying it gives back the receiver's tiles and positions.
C6_InverseMoveUndoes ==
    LastCallLegal
        => /\ exc = "none"
           /\ Contains(valid_moves(heap[ret]), Inverse(lastMove))
           /\ apply_move(heap[ret], Inverse(lastMove)).tiles = pre.tiles
           /\ apply_move(heap[ret], Inverse(lastMove)).positions = pre.positions

\* a legal move has been applied to a 3x3 board and has changed it
C6_Witness ==
    /\ LastCallLegal
    /\ pre.size = 3
    /\ heap[ret].tiles # pre.tiles
    /\ apply_move(heap[ret], Inverse(lastMove)).tiles = pre.tiles

\* C7: from a board built from a permutation of 0..N*N-1, every board that
\* exists after any sequence of apply_move calls, legal or not, has size*size
\* tiles holding each value once, and positions is the exact inverse of tiles.
C7_BoardsStayWellFormed ==
    /\ exc = "none"
    /\ \A o \in DOMAIN heap : WellFormed(heap[o])

\* several calls have been made, the last one a legal move that changed the board
C7_Witness ==
    /\ ncalls >= 3
    /\ LastCallLegal
    /\ heap[ret].tiles # pre.tiles
    /\ WellFormed(heap[ret])

\* C8: apply_move with an argument that is not in valid_moves() of the receiver
\* returns, without an error, a board whose tiles and positions are the
\* receiver's, and leaves the receiver as it was.
C8_IllegalMoveIsNoOp ==
    LastCallIllegal
        => /\ exc = "none"
           /\ heap[ret].tiles = pre.tiles
           /\ heap[ret].positions = pre.positions
           /\ heap[recv] = pre

\* a direction blocked by the board edge has been passed to apply_move
C8_Witness ==
    /\ LastCallIllegal
    /\ lastMove \in Moves
    /\ heap[ret].tiles = pre.tiles

\* C9: apply_move leaves the receiver unchanged and returns, for every
\* argument, an object distinct from the receiver.
C9_ReturnsNewObject ==
    ncalls > 0 => (heap[recv] = pre /\ ret # recv)

\* C10: a legal move m changes exactly two cells: the blank's old cell gets the
\* tile that was next to the blank on the side opposite to m, that tile's old
\* cell gets the blank; all other cells and positions entries are unchanged.
C10_LegalMoveSwapsTwoCells ==
    LastCallLegal
        => LET new == heap[ret]
               N == pre.size
               zi == CHOOSE i \in 1..Len(pre.tiles) : pre.tiles[i] = 0
               z == CellPos(N, zi)
               src == <<z[1] - Delta(lastMove)[1], z[2] - Delta(lastMove)[2]>>
               si == CellOf(N, src)
               tile == pre.tiles[si]
           IN  /\ exc = "none"
               /\ src[1] \in 0..(N - 1) /\ src[2] \in 0..(N - 1)
               /\ tile # 0
               /\ new.tiles[zi] = tile
               /\ new.tiles[si] = 0
               /\ \A i \in 1..Len(pre.tiles) : i \notin {zi, si} => new.tiles[i] = pre.tiles[i]
               /\ Len(new.tiles) = Len(pre.tiles)
               /\ DOMAIN new.positions = DOMAIN pre.positions
               /\ new.positions[0] = src
               /\ new.positions[tile] = z
               /\ \A v \in DOMAIN pre.positions :
                     v \notin {0, tile} => new.positions[v] = pre.positions[v]

\* a tile of a 3x3 board has moved up into the blank
C10_Witness ==
    /\ LastCallLegal
    /\ pre.size = 3
    /\ lastMove = "up"
    /\ heap[ret].positions[0][1] = pre.positions[0][1] + 1


\* the tiles of the solved 3x3 board after tile 8 and the blank changed places
Solved3TileEightMoved == <<1, 2, 3, 4, 5, 6, 7, 0, 8>>

\* C11 as stated: on the solved 3x3 board valid_moves() is exactly {up, left},
\* and apply_move('left') puts tile 8 into the blank's former (bottom-right)
\* cell and the blank into tile 8's former cell.
C11_SolvedCornerUpLeft ==
    (ncalls > 0 /\ pre.tiles = Solved(3))
        => /\ Range(valid_moves(pre)) = {"up", "left"}
           /\ (lastMove = "left" => heap[ret].tiles = Solved3TileEightMoved)

\* C11 amended: on the solved 3x3 board valid_moves() is exactly {down, right};
\* apply_move('right') puts tile 8 into the blank's former (bottom-right) cell
\* and the blank into tile 8's former cell; apply_move('left') changes nothing.
C11_SolvedCornerDownRight ==
    (ncalls > 0 /\ pre.tiles = Solved(3))
        => /\ Range(valid_moves(pre)) = {"down", "right"}
           /\ Len(valid_moves(pre)) = 2
           /\ (lastMove = "right"
                 => /\ heap[ret].tiles = Solved3TileEightMoved
                    /\ heap[ret].positions[8] = <<2, 2>>
                    /\ heap[ret].positions[0] = <<2, 1>>)
           /\ (lastMove = "left" => heap[ret].tiles = pre.tiles)

\* apply_move('right') has been called on the solved 3x3 board
C11_Witness ==
    /\ ncalls > 0
    /\ pre.tiles = Solved(3)
    /\ lastMove = "right"
    /\ heap[ret].tiles[9] = 8

\* the blank of b is in a first or last row, in a first or last column
BlankCell(b) == CellPos(b.size, CHOOSE i \in 1..Len(b.tiles) : b.tiles[i] = 0)
BlankOnRowEdge(b) == BlankCell(b)[1] \in {0, b.size - 1}
BlankOnColEdge(b) == BlankCell(b)[2] \in {0, b.size - 1}

\* C12: valid_moves() has no duplicates; it has 2 moves when the blank is in a
\* corner, 3 when it is on an edge but not in a corner, 4 when it is inside.
C12_ValidMovesCount ==
    \A o \in DOMAIN heap :
        LET b == heap[o]
            vm == valid_moves(b)
        IN  /\ \A i, j \in 1..Len(vm) : vm[i] = vm[j] => i = j
            /\ Range(vm) \subseteq Moves
            /\ Len(vm) = IF BlankOnRowEdge(b) /\ BlankOnColEdge(b) THEN 2
                         ELSE IF BlankOnRowEdge(b) \/ BlankOnColEdge(b) THEN 3
                         ELSE 4

\* moves have brought the blank of a 3x3 board to the centre and that of a 4x4
\* board to an edge cell off the corners
C12_Witness ==
    /\ ncalls > 0
    /\ heap[ret].tiles # pre.tiles
    /\ \/ heap[ret].size = 3 /\ Len(valid_moves(heap[ret])) = 4
       \/ heap[ret].size = 4 /\ Len(valid_moves(heap[ret])) = 3

----------------------------------------------------------------------------
(* Claims about the heuristics, checked under SpecWalk.  There sboard is the *)
(* solved board after k legal moves; every move has an inverse (C6), so k    *)
(* moves also lead from sboard to the solved board, and the minimum number   *)
(* of moves from a board to the goal is the least k it is reached with.      *)

\* C13: manhattan() + linear_conflict() never exceeds the minimum number of
\* moves from a 2x2 or 3x3 board to the goal: it is at most k for every k the
\* board is reached with.
C13_HeuristicAdmissible ==
    pc = "walk" => manhattan(sboard) + linear_conflict(sboard) <= k

\* C14: for every board s and every legal move m, h(s) <= 1 + h(s.apply_move(m)).
C14_HeuristicConsistent ==
    pc = "walk"
        => \A i \in 1..Len(valid_moves(sboard)) :
              h(sboard) <= 1 + h(apply_move(sboard, valid_moves(sboard)[i]))

\* C15: manhattan() is 0 on the solved board and never exceeds the minimum
\* number of moves from a 2x2 or 3x3 board to the goal.
C15_ManhattanAdmissible ==
    pc = "walk"
        => /\ manhattan(sboard) <= k
           /\ (sboard.tiles = Solved(sboard.size) => manhattan(sboard) = 0)

\* a 3x3 board 20 moves or more from the goal on which manhattan() is exact
C15_Witness ==
    /\ pc = "walk"
    /\ sboard.size = 3
    /\ k >= 20
    /\ manhattan(sboard) = k

\* ---------------------------------------------------------------------------
\* Claims about next_move and the ends of the search, checked under SpecSearch
\* ---------------------------------------------------------------------------

\* what next_move has to return for the search result res on the board b
HintFits(b, res, hint) ==
    IF isterminal(b) \/ res.kind = "none"
    THEN hint = NoMove
    ELSE /\ hint = res.path[1]
         /\ Contains(valid_moves(b), hint)

\* C16: next_move_astar and next_move_greedy return none when the state is
\* already the goal or when the search returned not-found; in every other case
\* they return the first move of the path the search returned, and that move is
\* legal on the state.
C16_NextMoveIsFirstMove ==
    /\ hint_astar # "pending" => HintFits(sboard, astar_result, hint_astar)
    /\ hint_greedy # "pending" => HintFits(sboard, greedy_result, hint_greedy)

\* both searches found a path of several moves that starts and ends with
\* different moves, and next_move returned a move for each
C16_Witness ==
    /\ pc = "done"
    /\ hint_astar \in Moves /\ hint_greedy \in Moves
    /\ Len(astar_result.path) >= 3
    /\ astar_result.path[1] # astar_result.path[Len(astar_result.path)]
    /\ greedy_result.path[1] # greedy_result.path[Len(greedy_result.path)]

\* the search that returned res decided whether the goal can be reached from
\* the start: a path if it can, the empty frontier if it cannot
Decides(res) ==
    /\ res.kind = "path" <=> Reachable(sboard.tiles)
    /\ res.why = "empty" <=> ~Reachable(sboard.tiles)

\* the number of arrangements of the tiles of an N x N board
RECURSIVE Factorial(_)
Factorial(n) == IF n = 0 THEN 1 ELSE n * Factorial(n - 1)

\* the running loop can take its next iteration: the frontier is empty, which
\* returns, or the cap leaves room for a pop
LoopGoesOn == pq = {} \/ iters + 1 <= max_iters

\* C17: with a time limit and an iteration cap that never bind, astar and
\* greedy_best_first terminate on every start: a running loop can always take
\* its next iteration, every iteration that does not return counts one more
\* pop, and there are never more pops than arrangements of the tiles; a call
\* that returned has a path whenever the goal is reachable from the start by
\* legal moves, and not-found, the frontier empty, only when it is unreachable.
C17_SearchesTerminateAndDecide ==
    /\ [](Running => LoopGoesOn /\ iters <= Factorial(Len(sboard.tiles)))
    /\ [][Running /\ Running' => iters' = iters + 1]_vars
    /\ [](astar_result.kind # "pending" => Decides(astar_result))
    /\ [](greedy_result.kind # "pending" => Decides(greedy_result))

\* both searches emptied their frontier on a 2x2 board that no sequence of
\* legal moves brings to the solved board
C17_Witness ==
    /\ pc = "done"
    /\ ~Reachable(sboard.tiles)
    /\ astar_result = NotFound("empty")
    /\ greedy_result = NotFound("empty")

\* the call that returned res made at most max_iters pops: it returned a path
\* within max_iters iterations, or not-found; stopped by the cap, it returned
\* not-found in iteration max_iters + 1, before the pop of that iteration
WithinCap(res) ==
    /\ res.kind = "path" => iters <= max_iters
    /\ res.why = "iters" => res.kind = "none" /\ iters = max_iters + 1
    /\ iters <= max_iters + 1

\* C18: a call of astar or greedy_best_first with iteration cap max_iters never
\* pops more than max_iters frontier entries: while it runs it has made at most
\* max_iters iterations, each with one pop; once the iterations exceed
\* max_iters it returns not-found as a value; and it returns a path only if
\* the goal was popped within the first max_iters iterations.
C18_PopsWithinCap ==
    /\ Running => iters <= max_iters
    /\ pc = "astar_done" => WithinCap(astar_result)
    /\ pc = "done" => WithinCap(greedy_result)

\* greedy_best_first was stopped by a cap of SmallCap iterations after A* had
\* found a path within its own cap
C18_Witness ==
    /\ pc = "done"
    /\ max_iters = SmallCap
    /\ iters = SmallCap + 1
    /\ greedy_result = NotFound("iters")
    /\ astar_result.kind = "path"
    /\ Len(astar_result.path) >= 1

\* ---------------------------------------------------------------------------
\* Claims about the Board constructor, checked under SpecCtor
\* ---------------------------------------------------------------------------

\* the number of tiles passed, and the rows passed
TileCount(arg) == IF arg.nested THEN Len(Flatten(arg.rows)) ELSE Len(arg.flat)

\* the tile count is no perfect square, or the rows of a nested list do not
\* all have the number of rows as their length
InvalidShape(arg) ==
    \/ isqrt(TileCount(arg)) * isqrt(TileCount(arg)) # TileCount(arg)
    \/ /\ arg.nested
       /\ \E i \in 1..Len(arg.rows) : Len(arg.rows[i]) # Len(arg.rows)

\* C19: constructing a board fails with an error, and returns no board,
\* whenever the total tile count is not a perfect square or the input is a
\* nested list of rows whose lengths are inconsistent; such input is never
\* silently accepted.
C19_InvalidShapeRaises ==
    ctor_out.exc # "pending" /\ InvalidShape(ctor_arg) => ctor_out.exc = "ValueError"

\* ---------------------------------------------------------------------------
\* Claims about the background searches, checked under SpecDisplayFair
\* ---------------------------------------------------------------------------

\* the tiles a board on display can have: a scrambled board, moved by the
\* arrow keys
DisplayTiles ==
    {u \in [1..4 -> 0..3] : IsPermutation(u)}
    \cup UNION {ScrambledWithin(N, StartDepth + MaxKeys) : N \in 3..MaxSize}
    \cup UNION {FileStarts(N) : N \in FileSizes}

\* what a worker can hand to its setter, as <<search, tiles of the board the
\* search is run on, path>>: the path the search returns when its time limit
\* does not end it, or None
SearchResults ==
    UNION {{<<x[1], x[2], PathOf(SearchRun(x[1], Board(x[2])))>>, <<x[1], x[2], NoPath>>}
           : x \in {"astar", "greedy"} \X DisplayTiles}

\* thread t has called its setter, once, with the result of the search on the
\* board it was started for and with the tiles of that board
DeliveredOnce(t) ==
    /\ t.calls = 1
    /\ <<t.alg, t.start_tiles, t.got[1]>> \in SearchResults
    /\ t.got[2] = t.start_tiles

\* every thread is in _worker or in its setter; a thread whose search has not
\* ended has made no call, and a thread past the call has made exactly that
\* one call, with the result of its search and the tiles of its own board
AtMostOneDelivery ==
    \A i \in 1..Len(threads) :
        LET t == threads[i]
        IN  /\ t.pc \in {"search", "call", "set_path", "set_hash", "ended"}
            /\ t.pc \in {"search", "call"} => t.calls = 0
            /\ t.pc \in {"set_path", "set_hash", "ended"} => DeliveredOnce(t)

\* thread i was started
Started(i) == i <= Len(threads)

\* thread i has invoked its setter
Delivered(i) == Started(i) /\ threads[i].calls = 1

\* the process has ended, through sys.exit(0) or on an exception of main
ProcessEnded == pc = "exited"

\* C20 as stated: for every background search started through
\* _start_astar_search or _start_greedy_search the setter is invoked exactly
\* once, after the search has ended, with the search's result (a path, or
\* none, also when the search raised) and the tile tuple of the board as it
\* was when the search was started, whatever the foreground does in the
\* meantime: no thread ever makes another call than that one, and every
\* started thread comes to make it.
C20_SetterInvokedOnce ==
    /\ []AtMostOneDelivery
    /\ \A i \in 1..MaxKeys : [](Started(i) => <>Delivered(i))

\* C20, amended: the setter of a started background search is never invoked
\* more than once, never before the search has ended and never with another
\* result or other tiles than those of the board the search was started on;
\* and it is invoked, exactly once, unless the process ends before the worker
\* gets there (the workers are daemon threads, which end with the process).
C20_SetterInvokedOnceUnlessProcessEnds ==
    /\ []AtMostOneDelivery
    /\ \A i \in 1..MaxKeys : [](Started(i) => <>(Delivered(i) \/ ProcessEnded))

\* two searches were started on different boards; the first one ended last
\* and delivered a path of several moves with the tiles of its own board,
\* which is not the board on display any more
C20_Witness ==
    /\ Len(threads) = 2
    /\ threads[1].pc = "ended" /\ threads[2].pc = "ended"
    /\ threads[1].start_tiles # threads[2].start_tiles
    /\ threads[1].got[1].kind = "path" /\ Len(threads[1].got[1].path) >= 2
    /\ threads[2].got[1] = NoPath
    /\ main_board.tiles # threads[1].start_tiles
    /\ search_board_hash = Hash(threads[1].start_tiles)

\* ---------------------------------------------------------------------------
\* Claims about the frontier and the records of the searches
\* ---------------------------------------------------------------------------

\* C21: in astar, whenever two frontier entries have equal priority f, the one
\* that was pushed earlier (smaller insertion counter) is popped first: ties on
\* f are broken by insertion order alone.
C21_TiesByInsertionOrder ==
    (pc = "astar" /\ pq # {} /\ ~CapExceeded)
        => LET e == heappop(pq)
           IN  \A o \in pq : o[1] = e[1] => e[3] <= o[3]

\* the frontier entry e of astar carries a cost greater than the best cost
\* recorded for its board
Stale(e) == e[2] > g_score[e[4]]

\* C22: in astar, when a popped frontier entry carries a cost g greater than
\* the best cost already recorded in g_score for the same state, then apart
\* from its removal from the frontier the iteration has no effect: the call does
\* not return from the goal test, g_score and came_from are unchanged, and no
\* new entry is pushed.
C22_StalePopChangesNothing ==
    [][(pc = "astar" /\ pq # {} /\ ~CapExceeded /\ Stale(heappop(pq)))
          => /\ pc' = "astar"
             /\ pq' = pq \ {heappop(pq)}
             /\ counter' = counter
             /\ g_score' = g_score
             /\ came_from' = came_from]_vars

\* astar has just popped an entry whose cost is greater than the cost recorded
\* for its board, and the search goes on
C22_Witness ==
    /\ pc = "astar"
    /\ popped # None
    /\ popped[2] > g_score[popped[4]]
    /\ pq # {}

\* following came_from from s reaches start in at most n steps
RECURSIVE ReachesStart(_, _, _)
ReachesStart(s, start, n) ==
    \/ s = start
    \/ /\ n > 0
       /\ s \in DOMAIN came_from
       /\ came_from[s] # None
       /\ ReachesStart(came_from[s], start, n - 1)

\* the records of the running search: the start has cost 0 and no
\* predecessor; every other recorded board has a recorded predecessor from
\* which one legal move leads to it, of lower cost; and its chain of
\* predecessors reaches the start in at most as many steps as its cost
RecordsSound ==
    LET start == sboard.tiles
    IN  /\ DOMAIN came_from = DOMAIN g_score
        /\ g_score[start] = 0
        /\ came_from[start] = None
        /\ \A s \in DOMAIN g_score \ {start} :
              LET p == came_from[s]
              IN  /\ p \in DOMAIN g_score
                  /\ \E m \in Range(valid_moves(Board(p))) :
                        apply_move(Board(p), m).tiles = s
                  /\ g_score[s] > g_score[p]
                  /\ ReachesStart(s, start, g_score[s])

\* C23: at every step of astar and greedy_best_first the start state keeps
\* g_score 0 and predecessor None; every other recorded state s has a recorded
\* predecessor p such that s is p.apply_move(m) for a legal m and
\* g_score[s] > g_score[p]; g_score of a state never increases; following
\* came_from from a recorded state reaches the start in at most g_score[s]
\* steps; and a returned path is no longer than the recorded cost of the goal.
C23_RecordsStaySound ==
    /\ [](Running => RecordsSound)
    /\ [][(Running /\ pc' = pc)
            => \A s \in DOMAIN g_score :
                  s \in DOMAIN g_score' /\ g_score'[s] <= g_score[s]]_vars
    /\ [][(pc = "astar" /\ pc' = "astar_done" /\ astar_result'.kind = "path")
            => Len(astar_result'.path) <= g_score[EntryTiles(heappop(pq))]]_vars
    /\ [][(pc = "greedy" /\ pc' = "done" /\ greedy_result'.kind = "path")
            => Len(greedy_result'.path) <= g_score[EntryTiles(heappop(pq))]]_vars

\* greedy_best_first has made several iterations on a 3 x 3 board and has
\* recorded boards of cost 4 and more, each with its chain back to the start
C23_Witness ==
    /\ pc = "greedy"
    /\ sboard.size = 3
    /\ iters >= 4
    /\ \E s \in DOMAIN g_score :
          /\ g_score[s] >= 4
          /\ ReachesStart(s, sboard.tiles, g_score[s])
          /\ ~ReachesStart(s, sboard.tiles, 3)

\* ---------------------------------------------------------------------------
\* Claims about the display loop, checked under SpecDisplay
\* ---------------------------------------------------------------------------

\* the started searches that have not yet delivered their result
Undelivered == {i \in 1..Len(threads) : threads[i].calls = 0}

\* the s or g handler has set search_in_progress and is about to start its thread
Starting == at \in {"search_path", "search_hash"}

\* C26: in the display loop search_in_progress is true exactly while a
\* started background search has not yet delivered its result, so at most one
\* background search is running at any time and a result that is still to be
\* delivered belongs to the most recently started search.
C26_OneSearchInProgress ==
    /\ search_in_progress <=> (Undelivered # {} \/ Starting)
    /\ Cardinality(Undelivered) <= 1
    /\ \A i \in Undelivered : i = Len(threads)

\* the tiles obtained by applying moves, all of them legal, to the board of
\* tiles t; None if one of them is not legal
RECURSIVE ReplayTiles(_, _)
ReplayTiles(t, moves) ==
    IF t = None \/ moves = <<>> THEN t
    ELSE IF Contains(valid_moves(Board(t)), Head(moves))
         THEN ReplayTiles(apply_move(Board(t), Head(moves)).tiles, Tail(moves))
         ELSE None

\* C24: in the display loop, under every interleaving of key events and
\* background result deliveries, auto-run applies the i-th move of a search
\* path only to the board obtained by applying the first i moves of that same
\* path to the board whose fingerprint the path was delivered with.
C24_AutoRunOnItsOwnBoard ==
    applied # None
        => applied.on = ReplayTiles(applied.fingerprint, SubSeq(applied.path, 1, applied.i))

\* C25: when an auto-run step finds that the next path move is not legal on
\* the current board, the loop turns auto-run off, clears the cached path and
\* carries on with the next frame; in no reachable state does the loop take
\* the length of, or index into, an absent search path.
C25_NoAbsentPathAccess == pc # "TypeError"

====
